---- MODULE Spec2Model ----
(***************************************************************************)
(* The Observee SDK gateway (src/main.py): three operations, FilterTools,  *)
(* GetToolInfo and ExecuteTool, each validating its request, resolving an  *)
(* API key and delegating to one function of the observee_agents SDK.      *)
(*                                                                         *)
(* The handlers are `async def` functions that call the SDK synchronously  *)
(* and never await anything but each other, so the event loop runs one     *)
(* request at a time: the model holds one request in flight.  A handler is *)
(* split at its single SDK call, whose outcome (a returned value or a      *)
(* raised exception) is the environment's choice.                          *)
(*                                                                         *)
(* Python values:  Optional[T] is a sequence of length 0 (None) or 1;      *)
(* values of type Any are tagged records [type, value]; a dict is the set  *)
(* of its <<key, value>> items; an exception is a record with its class.   *)
(* Only exceptions derived from Exception are modelled (`except Exception` *)
(* is what the handlers write).                                            *)
(***************************************************************************)
EXTENDS Integers, Sequences, FiniteSets, TLC

VARIABLES
    env,                    \* os.environ["OBSERVEE_API_KEY"]: Optional[str]
    http_exception_has_str, \* whether the installed HTTPException defines __str__
    pc,                     \* "idle", "delegate" (inside the SDK call) or "done"
    binding,                \* the route of the request in flight, "" when idle
    received,               \* the body / parameters as sent: Optional[record]
    request,                \* the validated request model: Optional[record]
    calls,                  \* the SDK calls made for the request in flight
    delegate,               \* the outcome of the SDK call: Optional[outcome]
    responses               \* the HTTP responses sent for the request in flight

vars == <<env, http_exception_has_str, pc, binding, received, request, calls,
          delegate, responses>>

----------------------------------------------------------------------------
(* Bounds and program constants *)

MaxLen == 2

MinMaxTools == 1

MaxMaxTools == 100

DefaultMaxTools == 10

BadRequest == 400

ServerError == 500

----------------------------------------------------------------------------
(* Python values *)

None == <<>>

Some(x) == <<x>>

Truthy(o) == o /= None /\ o[1] /= ""

PyNone == [type |-> "NoneType"]

PyDict(items) == [type |-> "dict", value |-> items]

PyStr(s) == [type |-> "str", value |-> s]

PyList(xs) == [type |-> "list", value |-> xs]

Return(v) == [raised |-> FALSE, value |-> v]

Raise(e) == [raised |-> TRUE, value |-> e]

Error(cls, msg) == [cls |-> cls, msg |-> msg]

HTTPException(status_code, detail) ==
    [cls |-> "HTTPException", status_code |-> status_code, detail |-> detail]

\* str(e): the message of an ordinary exception.  HTTPException is built with
\* keyword arguments only, so its str() is "" unless the installed framework
\* defines __str__ as "<status_code>: <detail>".
Str(e) ==
    IF e.cls = "HTTPException"
    THEN IF http_exception_has_str
         THEN ToString(e.status_code) \o ": " \o e.detail
         ELSE ""
    ELSE e.msg

----------------------------------------------------------------------------
(* Request models and their validation *)

\* FilterToolsRequest with the le=100 constraint left out.
FilterToolsRequest_no_le(b) ==
    LET max_tools == IF b.max_tools = None THEN DefaultMaxTools ELSE b.max_tools[1]
    IN  IF b.query = None \/ max_tools < MinMaxTools
        THEN None
        ELSE Some([query            |-> b.query[1],
                   max_tools        |-> max_tools,
                   filter_type      |-> IF b.filter_type = None
                                        THEN "local_embedding"
                                        ELSE b.filter_type[1],
                   observee_api_key |-> b.observee_api_key])

\* FilterToolsRequest: query is required (any string), max_tools defaults to
\* 10 and must satisfy ge=1, le=100, filter_type defaults to
\* "local_embedding", observee_api_key defaults to None.  None when pydantic
\* rejects the input.
FilterToolsRequest(b) ==
    LET max_tools == IF b.max_tools = None THEN DefaultMaxTools ELSE b.max_tools[1]
    IN  IF \/ b.query = None
           \/ max_tools < MinMaxTools
           \/ max_tools > MaxMaxTools
        THEN None
        ELSE Some([query            |-> b.query[1],
                   max_tools        |-> max_tools,
                   filter_type      |-> IF b.filter_type = None
                                        THEN "local_embedding"
                                        ELSE b.filter_type[1],
                   observee_api_key |-> b.observee_api_key])

\* GetToolInfoRequest: tool_name is required (any string).
GetToolInfoRequest(b) ==
    IF b.tool_name = None
    THEN None
    ELSE Some([tool_name        |-> b.tool_name[1],
               observee_api_key |-> b.observee_api_key])

\* ExecuteToolRequest: tool_name and tool_input are required.
ExecuteToolRequest(b) ==
    IF b.tool_name = None \/ b.tool_input = None
    THEN None
    ELSE Some([tool_name        |-> b.tool_name[1],
               tool_input       |-> b.tool_input[1],
               observee_api_key |-> b.observee_api_key])

----------------------------------------------------------------------------
(* Response models *)

IsDict(v) == v.type = "dict"

IsListOfDicts(v) ==
    /\ v.type = "list"
    /\ \A i \in 1..Len(v.value) : IsDict(v.value[i])

\* FilterToolsResponse counting the distinct tools instead of the entries.
FilterToolsResponse_distinct(tools) ==
    IF tools.type \notin {"list", "dict", "str"}
    THEN Raise(Error("TypeError", "object of type 'NoneType' has no len()"))
    ELSE IF ~IsListOfDicts(tools)
    THEN Raise(Error("ValidationError", "validation error for FilterToolsResponse"))
    ELSE Return([tools |-> tools.value,
                 count |-> Cardinality({tools.value[i] : i \in 1..Len(tools.value)})])

\* FilterToolsResponse(tools=tools, count=len(tools)): len() is evaluated
\* first and raises TypeError on a value without a length; the model then
\* validates tools as List[Dict[str, Any]].
FilterToolsResponse(tools) ==
    IF tools.type \notin {"list", "dict", "str"}
    THEN Raise(Error("TypeError", "object of type 'NoneType' has no len()"))
    ELSE IF ~IsListOfDicts(tools)
    THEN Raise(Error("ValidationError", "validation error for FilterToolsResponse"))
    ELSE Return([tools |-> tools.value, count |-> Len(tools.value)])

\* GetToolInfoResponse with found=bool(tool_info): an empty descriptor is falsy.
GetToolInfoResponse_truthy(tool_info) ==
    IF tool_info /= PyNone /\ ~IsDict(tool_info)
    THEN Raise(Error("ValidationError", "validation error for GetToolInfoResponse"))
    ELSE Return([tool_info |-> tool_info,
                 found     |-> tool_info /= PyNone /\ tool_info.value /= {}])

\* GetToolInfoResponse(tool_info=tool_info, found=tool_info is not None):
\* tool_info is validated as Optional[Dict[str, Any]].
GetToolInfoResponse(tool_info) ==
    IF tool_info /= PyNone /\ ~IsDict(tool_info)
    THEN Raise(Error("ValidationError", "validation error for GetToolInfoResponse"))
    ELSE Return([tool_info |-> tool_info, found |-> tool_info /= PyNone])

\* ExecuteToolResponse: result is Any, error defaults to None.
ExecuteToolResponse(result, success, error) ==
    [result |-> result, success |-> success, error |-> error]

----------------------------------------------------------------------------
(* Credential resolution *)

MissingKeyDetail ==
    "No API key provided. Set OBSERVEE_API_KEY environment variable or provide in request."

\* get_api_key without the `if not api_key` check on the environment value.
get_api_key_unchecked(provided_key) ==
    IF Truthy(provided_key)
    THEN Return(provided_key[1])
    ELSE Return(IF env = None THEN "" ELSE env[1])

\* get_api_key consulting the environment before the request.
get_api_key_env_first(provided_key) ==
    IF Truthy(env)
    THEN Return(env[1])
    ELSE IF ~Truthy(provided_key)
    THEN Raise(HTTPException(BadRequest, MissingKeyDetail))
    ELSE Return(provided_key[1])

get_api_key(provided_key) ==
    IF Truthy(provided_key)
    THEN Return(provided_key[1])
    ELSE IF ~Truthy(env)
    THEN Raise(HTTPException(BadRequest, MissingKeyDetail))
    ELSE Return(env[1])

----------------------------------------------------------------------------
(* Handlers *)

\* The filter handler answering a failure with an empty result.
filter_tools_except_empty(e) ==
    Return([tools |-> <<>>, count |-> 0])

filter_tools_except(e) ==
    Raise(HTTPException(ServerError, "Error filtering tools: " \o Str(e)))

get_tool_info_except(e) ==
    Raise(HTTPException(ServerError, "Error getting tool info: " \o Str(e)))

\* The execute handler raising like the other two.
execute_tool_except_raises(e) ==
    Raise(HTTPException(ServerError, "Error executing tool: " \o Str(e)))

execute_tool_except(e) ==
    Return(ExecuteToolResponse(PyNone, FALSE, Some(Str(e))))

\* The SDK calls a handler makes once its credential is resolved to api_key.
\* The filter handler calling the SDK a second time.
filter_tools_call_twice(r, api_key) ==
    LET call == [fn               |-> "filter_tools",
                 query            |-> r.query,
                 max_tools        |-> r.max_tools,
                 filter_type      |-> r.filter_type,
                 observee_api_key |-> api_key]
    IN  <<call, call>>

filter_tools_call(r, api_key) ==
    <<[fn               |-> "filter_tools",
       query            |-> r.query,
       max_tools        |-> r.max_tools,
       filter_type      |-> r.filter_type,
       observee_api_key |-> api_key]>>

get_tool_info_call(r, api_key) ==
    <<[fn               |-> "get_tool_info",
       tool_name        |-> r.tool_name,
       observee_api_key |-> api_key]>>

execute_tool_call(r, api_key) ==
    <<[fn               |-> "execute_tool",
       tool_name        |-> r.tool_name,
       tool_input       |-> r.tool_input,
       observee_api_key |-> api_key]>>

\* The try block up to and including the SDK call: the calls made, and the
\* handler's outcome when it ends without making one.
filter_tools_endpoint(r) ==
    LET api_key == get_api_key(r.observee_api_key)
    IN  IF api_key.raised
        THEN [calls |-> <<>>, done |-> Some(filter_tools_except(api_key.value))]
        ELSE [calls |-> filter_tools_call(r, api_key.value), done |-> None]

get_tool_info_endpoint(r) ==
    LET api_key == get_api_key(r.observee_api_key)
    IN  IF api_key.raised
        THEN [calls |-> <<>>, done |-> Some(get_tool_info_except(api_key.value))]
        ELSE [calls |-> get_tool_info_call(r, api_key.value), done |-> None]

execute_tool_endpoint(r) ==
    LET api_key == get_api_key(r.observee_api_key)
    IN  IF api_key.raised
        THEN [calls |-> <<>>, done |-> Some(execute_tool_except(api_key.value))]
        ELSE [calls |-> execute_tool_call(r, api_key.value), done |-> None]

\* The rest of the handler, once the SDK call has ended with outcome d.
filter_tools_resume(d) ==
    IF d.raised THEN filter_tools_except(d.value)
    ELSE LET resp == FilterToolsResponse(d.value)
         IN  IF resp.raised THEN filter_tools_except(resp.value) ELSE resp

get_tool_info_resume(d) ==
    IF d.raised THEN get_tool_info_except(d.value)
    ELSE LET resp == GetToolInfoResponse(d.value)
         IN  IF resp.raised THEN get_tool_info_except(resp.value) ELSE resp

execute_tool_resume(d) ==
    IF d.raised THEN execute_tool_except(d.value)
    ELSE Return(ExecuteToolResponse(d.value, TRUE, None))

\* GET /filter-tools: the Query(...) declarations validate the parameters
\* (query required, max_tools default 10 with ge=1, le=100) and the handler
\* rebuilds a FilterToolsRequest from them.
filter_tools_get_endpoint(q) ==
    LET max_tools == IF q.max_tools = None THEN DefaultMaxTools ELSE q.max_tools[1]
    IN  IF \/ q.query = None
           \/ max_tools < MinMaxTools
           \/ max_tools > MaxMaxTools
        THEN None
        ELSE FilterToolsRequest(
                 [query            |-> q.query,
                  max_tools        |-> Some(max_tools),
                  filter_type      |-> IF q.filter_type = None
                                       THEN Some("local_embedding")
                                       ELSE q.filter_type,
                  observee_api_key |-> q.observee_api_key])

\* GET /tool-info/{tool_name}: the path segment is the tool name.
get_tool_info_get_endpoint(q) ==
    GetToolInfoRequest([tool_name        |-> q.tool_name,
                        observee_api_key |-> q.observee_api_key])

\* What the framework sends for a handler's outcome: the returned model with
\* status 200, or the HTTPException's status and {"detail": ...}.
Respond(o) ==
    IF o.raised
    THEN [status |-> o.value.status_code, body |-> [detail |-> o.value.detail]]
    ELSE [status |-> 200, body |-> o.value]

\* The framework's answer to a request its validation rejects.
Unprocessable == [status |-> 422, body |-> [detail |-> "validation error"]]

----------------------------------------------------------------------------
(* Inputs *)

Keys == {None, Some(""), Some("req-key")}

EnvValues == {None, Some(""), Some("env-key")}

Queries == {None, Some(""), Some("send email")}

MaxToolsInputs ==
    {None, Some(MinMaxTools - 1), Some(MinMaxTools), Some(5),
     Some(MaxMaxTools), Some(MaxMaxTools + 1)}

FilterTypes == {None, Some("bm25")}

ToolNames == {None, Some(""), Some("broken_tool")}

\* A path segment matched by {tool_name} is never empty and never missing.
PathToolNames == {Some("nonexistent_tool"), Some("broken_tool")}

ToolInputs == {None, Some({}), Some({<<"to", "a@b.c">>})}

FilterInputs ==
    [query : Queries, max_tools : MaxToolsInputs, filter_type : FilterTypes,
     observee_api_key : Keys]

ToolInfoInputs == [tool_name : ToolNames, observee_api_key : Keys]

ToolInfoPathInputs == [tool_name : PathToolNames, observee_api_key : Keys]

ExecuteInputs ==
    [tool_name : ToolNames, tool_input : ToolInputs, observee_api_key : Keys]

\* What the SDK may hand back or raise.
Descriptors == {PyDict({}), PyDict({<<"name", "send_email">>})}

Values == Descriptors \cup {PyNone, PyStr("ok")}

RECURSIVE SeqsUpTo(_, _)
SeqsUpTo(S, n) ==
    IF n = 0 THEN {<<>>}
    ELSE LET shorter == SeqsUpTo(S, n - 1)
         IN  shorter \cup {Append(xs, x) : xs \in shorter, x \in S}

FilterValues ==
    {PyNone} \cup {PyList(xs) : xs \in SeqsUpTo(Descriptors \cup {PyStr("ok")}, MaxLen)}

Exceptions == {Error("ValueError", "bad input"), Error("Exception", "")}

----------------------------------------------------------------------------
(* The state machine *)

FilterRoutes == {"POST /filter-tools", "GET /filter-tools"}

ToolInfoRoutes == {"POST /tool-info", "GET /tool-info/{tool_name}"}

ExecuteRoutes == {"POST /execute-tool"}

Init ==
    /\ env \in EnvValues
    /\ http_exception_has_str \in BOOLEAN
    /\ pc = "idle"
    /\ binding = ""
    /\ received = None
    /\ request = None
    /\ calls = <<>>
    /\ delegate = None
    /\ responses = <<>>

\* The framework routes a request: r is the validated model (None when the
\* input is rejected), h the handler's try block run on it.
Route(route, b, r, h) ==
    /\ pc = "idle"
    /\ binding' = route
    /\ received' = Some(b)
    /\ request' = r
    /\ IF r = None
       THEN /\ responses' = Append(responses, Unprocessable)
            /\ calls' = calls
            /\ pc' = "done"
       ELSE /\ calls' = calls \o h.calls
            /\ IF h.done /= None
               THEN /\ responses' = Append(responses, Respond(h.done[1]))
                    /\ pc' = "done"
               ELSE /\ responses' = responses
                    /\ pc' = "delegate"
    /\ UNCHANGED <<env, http_exception_has_str, delegate>>

\* The SDK call ends with outcome d and the handler finishes with outcome o.
Finish(d, o) ==
    /\ delegate' = Some(d)
    /\ responses' = Append(responses, Respond(o))
    /\ pc' = "done"
    /\ UNCHANGED <<env, http_exception_has_str, binding, received, request, calls>>

PostFilterTools ==
    \E b \in FilterInputs :
        LET r == FilterToolsRequest(b)
        IN  Route("POST /filter-tools", b, r,
                  IF r = None THEN None ELSE filter_tools_endpoint(r[1]))

GetFilterTools ==
    \E b \in FilterInputs :
        LET r == filter_tools_get_endpoint(b)
        IN  Route("GET /filter-tools", b, r,
                  IF r = None THEN None ELSE filter_tools_endpoint(r[1]))

PostToolInfo ==
    \E b \in ToolInfoInputs :
        LET r == GetToolInfoRequest(b)
        IN  Route("POST /tool-info", b, r,
                  IF r = None THEN None ELSE get_tool_info_endpoint(r[1]))

GetToolInfo ==
    \E b \in ToolInfoPathInputs :
        LET r == get_tool_info_get_endpoint(b)
        IN  Route("GET /tool-info/{tool_name}", b, r,
                  IF r = None THEN None ELSE get_tool_info_endpoint(r[1]))

PostExecuteTool ==
    \E b \in ExecuteInputs :
        LET r == ExecuteToolRequest(b)
        IN  Route("POST /execute-tool", b, r,
                  IF r = None THEN None ELSE execute_tool_endpoint(r[1]))

FilterToolsReturns ==
    /\ pc = "delegate" /\ binding \in FilterRoutes
    /\ \E v \in FilterValues : Finish(Return(v), filter_tools_resume(Return(v)))

FilterToolsRaises ==
    /\ pc = "delegate" /\ binding \in FilterRoutes
    /\ \E e \in Exceptions : Finish(Raise(e), filter_tools_resume(Raise(e)))

ToolInfoReturns ==
    /\ pc = "delegate" /\ binding \in ToolInfoRoutes
    /\ \E v \in Values : Finish(Return(v), get_tool_info_resume(Return(v)))

ToolInfoRaises ==
    /\ pc = "delegate" /\ binding \in ToolInfoRoutes
    /\ \E e \in Exceptions : Finish(Raise(e), get_tool_info_resume(Raise(e)))

ExecuteToolReturns ==
    /\ pc = "delegate" /\ binding \in ExecuteRoutes
    /\ \E v \in Values : Finish(Return(v), execute_tool_resume(Return(v)))

ExecuteToolRaises ==
    /\ pc = "delegate" /\ binding \in ExecuteRoutes
    /\ \E e \in Exceptions : Finish(Raise(e), execute_tool_resume(Raise(e)))

\* GET /health: no credential, no SDK call.
health_check ==
    /\ pc = "idle"
    /\ binding' = "GET /health"
    /\ responses' = Append(responses,
           [status |-> 200,
            body   |-> [status  |-> "healthy",
                        message |-> "Observee SDK API is running"]])
    /\ pc' = "done"
    /\ UNCHANGED <<env, http_exception_has_str, received, request, calls, delegate>>

\* The response is sent and the next request is taken up.
Close ==
    /\ pc = "done"
    /\ pc' = "idle"
    /\ binding' = ""
    /\ received' = None
    /\ request' = None
    /\ calls' = <<>>
    /\ delegate' = None
    /\ responses' = <<>>
    /\ UNCHANGED <<env, http_exception_has_str>>

Next ==
    \/ PostFilterTools
    \/ GetFilterTools
    \/ PostToolInfo
    \/ GetToolInfo
    \/ PostExecuteTool
    \/ FilterToolsReturns
    \/ FilterToolsRaises
    \/ ToolInfoReturns
    \/ ToolInfoRaises
    \/ ExecuteToolReturns
    \/ ExecuteToolRaises
    \/ health_check
    \/ Close

Spec == Init /\ [][Next]_vars

----------------------------------------------------------------------------
(* Properties *)

\* The handler of the request in flight has run to its response.
Handled == pc = "done" /\ request /= None /\ Len(responses) = 1

\* The request carries no usable credential and the process has none either.
MissingCredential ==
    /\ received /= None
    /\ ~Truthy(received[1].observee_api_key)
    /\ ~Truthy(env)

Raised == delegate /= None /\ delegate[1].raised

Returned == delegate /= None /\ ~delegate[1].raised

\* C1: on each of the three operations, a request without a credential, with
\* OBSERVEE_API_KEY absent or empty, is answered with HTTP 400 and the fixed
\* missing-credential message.
C1_MissingCredentialIsBadRequest ==
    (Handled /\ MissingCredential) =>
        responses[1] = [status |-> 400, body |-> [detail |-> MissingKeyDetail]]

\* C2: when execute_tool raises, the response is HTTP 200 with success false,
\* result null and error the exception's message, and that error is not empty.
C2_ExecuteFailureHasMessage ==
    (Handled /\ binding \in ExecuteRoutes /\ Raised) =>
        /\ responses[1] = [status |-> 200,
                           body   |-> [result  |-> PyNone,
                                       success |-> FALSE,
                                       error   |-> Some(delegate[1].value.msg)]]
        /\ responses[1].body.error[1] /= ""

\* C3: when filter_tools or get_tool_info raises, the response is HTTP 500, its
\* detail carries the exception's message, and it holds no result body.
C3_LookupFailureIsServerError ==
    /\ (Handled /\ binding \in FilterRoutes /\ Raised) =>
           responses[1] =
               [status |-> 500,
                body   |-> [detail |-> "Error filtering tools: "
                                           \o delegate[1].value.msg]]
    /\ (Handled /\ binding \in ToolInfoRoutes /\ Raised) =>
           responses[1] =
               [status |-> 500,
                body   |-> [detail |-> "Error getting tool info: "
                                           \o delegate[1].value.msg]]

C3_Witness ==
    /\ Handled /\ binding = "GET /filter-tools" /\ Raised
    /\ delegate[1].value.msg = "bad input"
    /\ responses[1].status = 500

\* C4: a request that omits the credential while the process-wide value is
\* absent never has a delegate invoked for it, on any binding.
C4_NoDelegateWithoutCredential ==
    MissingCredential => calls = <<>> /\ delegate = None

C4_Witness ==
    /\ Handled /\ MissingCredential
    /\ binding \in ExecuteRoutes
    /\ calls = <<>>

\* C5: the credential forwarded to a delegate is the request's own when that
\* is present and non-empty, whatever the process-wide value, and the
\* process-wide value otherwise; it is never empty.
C5_ForwardedCredential ==
    \A i \in 1..Len(calls) :
        LET k == calls[i].observee_api_key
            p == received[1].observee_api_key
        IN  /\ k /= ""
            /\ IF Truthy(p) THEN k = p[1] ELSE env /= None /\ k = env[1]

C5_Witness ==
    /\ Len(calls) = 1
    /\ received[1].observee_api_key = Some("req-key")
    /\ env = Some("env-key")
    /\ calls[1].observee_api_key = "req-key"

\* The validation failures C6 names: max_tools outside [1,100] or an empty or
\* missing query on FilterTools, an empty or missing tool_name on the others.
C6_Invalid ==
    /\ received /= None
    /\ \/ /\ binding \in FilterRoutes
          /\ \/ received[1].query \in {None, Some("")}
             \/ /\ received[1].max_tools /= None
                /\ received[1].max_tools[1] \notin 1..100
       \/ /\ binding \in ToolInfoRoutes \cup ExecuteRoutes
          /\ received[1].tool_name \in {None, Some("")}

C6_Rejected ==
    /\ received /= None
    /\ \/ /\ binding \in FilterRoutes
          /\ \/ received[1].query = None
             \/ /\ received[1].max_tools /= None
                /\ received[1].max_tools[1] \notin 1..100
       \/ /\ binding \in ToolInfoRoutes \cup ExecuteRoutes
          /\ received[1].tool_name = None
       \/ /\ binding \in ExecuteRoutes
          /\ received[1].tool_input = None

C7_ExecuteShape ==
    (Handled /\ binding \in ExecuteRoutes) =>
        /\ responses[1].status = 200
        /\ responses[1].body.error /= None => ~responses[1].body.success
        /\ responses[1].body.success <=> (Len(calls) = 1 /\ Returned)
        /\ responses[1].body.success =>
               /\ responses[1].body.result = delegate[1].value
               /\ responses[1].body.error = None

C7_Witness ==
    /\ Handled /\ binding \in ExecuteRoutes
    /\ MissingCredential
    /\ responses[1].status = 200
    /\ ~responses[1].body.success

\* C8: on both tool-info bindings a success response has found true exactly
\* when tool_info is not null, and a lookup that returns nothing yields
\* {tool_info: null, found: false} with HTTP 200.
C8_FoundIffPresent ==
    (Handled /\ binding \in ToolInfoRoutes) =>
        /\ responses[1].status = 200 =>
               (responses[1].body.found <=> responses[1].body.tool_info /= PyNone)
        /\ (Returned /\ delegate[1].value = PyNone) =>
               responses[1] = [status |-> 200,
                               body   |-> [tool_info |-> PyNone, found |-> FALSE]]

C8_Witness ==
    /\ Handled /\ binding = "GET /tool-info/{tool_name}"
    /\ request[1].tool_name = "nonexistent_tool"
    /\ Returned /\ delegate[1].value = PyNone
    /\ responses[1].status = 200
    /\ ~responses[1].body.found

\* C9: on both filter-tools bindings, when filter_tools returns a sequence of
\* descriptors the response carries exactly that sequence, in order, and count
\* is its length.
C9_ToolsAndCount ==
    (Handled /\ binding \in FilterRoutes) =>
        /\ responses[1].status = 200 =>
               responses[1].body.count = Len(responses[1].body.tools)
        /\ (Returned /\ IsListOfDicts(delegate[1].value)) =>
               responses[1] =
                   [status |-> 200,
                    body   |-> [tools |-> delegate[1].value.value,
                                count |-> Len(delegate[1].value.value)]]

C9_Witness ==
    /\ Handled /\ binding = "GET /filter-tools"
    /\ Returned
    /\ delegate[1].value =
           PyList(<<PyDict({<<"name", "send_email">>}), PyDict({})>>)
    /\ responses[1].status = 200
    /\ responses[1].body.count = 2

DelegateOf(route) ==
    IF route \in FilterRoutes THEN "filter_tools"
    ELSE IF route \in ToolInfoRoutes THEN "get_tool_info"
    ELSE IF route \in ExecuteRoutes THEN "execute_tool"
    ELSE "none"

C10_State ==
    /\ Len(calls) <= 1
    /\ \A i \in 1..Len(calls) : calls[i].fn = DelegateOf(binding)
    /\ delegate /= None => Len(calls) = 1
    /\ Len(responses) <= 1
    /\ pc = "done" <=> Len(responses) = 1

\* A delegate call is only ever added while the request has no call, no
\* delegate outcome and no response yet.
C10_Step ==
    (calls' /= calls /\ calls' /= <<>>) =>
        calls = <<>> /\ delegate = None /\ responses = <<>>

\* C10: a request gets at most one delegate call, to the delegate of its
\* operation; after a delegate failure or a failed credential no further call
\* is made; every request ends with exactly one response.
C10_SingleShot == []C10_State /\ [][C10_Step]_vars

C10_Witness ==
    /\ Handled /\ Raised
    /\ Len(calls) = 1
    /\ binding \in FilterRoutes

====
